---- MODULE Spec2Model ----
(***************************************************************************)
(* Model of the acpi-tables crate root (src/acpi-tables/src/lib.rs):       *)
(* the ACPI checksum, the GenericAddressStructure and SdtHeader packed     *)
(* records with their byte images, and the Sdt table contract.             *)
(*                                                                         *)
(* Bytes are integers 0..255, byte arrays and slices are sequences.        *)
(* A u32 is an integer below 2^31 (the range of TLC's integers),           *)
(* a u64 is four 16-bit digits, most significant first.                    *)
(***************************************************************************)
EXTENDS Integers, Sequences, FiniteSets, TLC

VARIABLES
    buf,        \* checksum: the fragment list the caller holds
    called,     \* checksum: checksum has been called
    cs,         \* checksum: result of the last checksum call
    csBuf,      \* checksum: the fragment list that call was given
    hdr,        \* header: the SdtHeader the caller holds, NoValue before
    hdrArgs,    \* header: the arguments it was built from
    hdrFresh,   \* header: hdr is as SdtHeader::new returned it
    hdrImage,   \* header: result of the last as_bytes() on hdr, <<>> before
    prevCreator, \* header: creator fields of the SdtHeader built before it
    argsDiffer, \* header: hdrArgs differ in every field from the ones before
    gas,        \* gas: the last GenericAddressStructure built
    gasArgs,    \* gas: the arguments it was built from
    gasImage,   \* gas: result of the last as_bytes() on gas, <<>> before
    table,      \* table: [header, body] of one concrete table
    finalized,  \* table: checksum computed over the current content
    mem,        \* table: guest memory, address -> byte
    lastCall,   \* table: the last write_to_guest call and its outcome
    placedAt,   \* table: addresses written successfully since the table's
                \*        content last changed
    placed      \* table: the byte sequences those writes put in memory

checksumVars == <<buf, called, cs, csBuf>>
headerVars == <<hdr, hdrArgs, hdrFresh, hdrImage, prevCreator, argsDiffer>>
gasVars == <<gas, gasArgs, gasImage>>
codecVars == <<headerVars, gasVars>>
tableVars == <<table, finalized, mem, lastCall, placedAt, placed>>
vars == <<checksumVars, codecVars, tableVars>>

NoValue == [none |-> TRUE]

(***************************************************************************)
(* Bounds                                                                  *)
(***************************************************************************)
MaxFrags == 2       \* fragments in a generated fragment list
MaxFragLen == 2     \* bytes in a generated fragment
MaxBody == 1        \* bytes in a table body
ByteVals == {1, 128, 255}

(***************************************************************************)
(* u8 arithmetic                                                           *)
(***************************************************************************)
\* Variant: addition that saturates instead of wrapping.
saturating_add(a, b) == IF a + b > 255 THEN 255 ELSE a + b

wrapping_add(a, b) == (a + b) % 256

\* Variant: one's complement instead of two's complement.
wrapping_neg_ones(a) == 255 - a

wrapping_neg(a) == (256 - a) % 256

(***************************************************************************)
(* checksum: fold wrapping_add from 0 over every byte of every slice, in   *)
(* order, then negate.                                                     *)
(***************************************************************************)
RECURSIVE FoldSlice(_, _)
FoldSlice(acc, slice) ==
    IF slice = <<>> THEN acc
    ELSE FoldSlice(wrapping_add(acc, Head(slice)), Tail(slice))

RECURSIVE FoldBuf(_, _)
FoldBuf(acc, b) ==
    IF b = <<>> THEN acc
    ELSE FoldBuf(FoldSlice(acc, Head(b)), Tail(b))

\* Variant: the accumulator restarts at every slice.
checksum_last_slice(b) ==
    wrapping_neg(IF b = <<>> THEN 0 ELSE FoldSlice(0, b[Len(b)]))

checksum(b) == wrapping_neg(FoldBuf(0, b))

(***************************************************************************)
(* Mathematical helpers used to state the properties                       *)
(***************************************************************************)
RECURSIVE SumBytes(_)
SumBytes(s) == IF s = <<>> THEN 0 ELSE Head(s) + SumBytes(Tail(s))

RECURSIVE Flatten(_)
Flatten(b) == IF b = <<>> THEN <<>> ELSE Head(b) \o Flatten(Tail(b))

SeqsUpTo(S, n) == UNION {[1..k -> S] : k \in 0..n}

(***************************************************************************)
(* Checksum inputs: the vectors of tests::test_checksum and every          *)
(* fragment list within the bounds.                                        *)
(***************************************************************************)
TestVectors ==
    { << <<>> >>,
      <<>>,
      << <<1, 2, 3>> >>,
      << <<1, 2, 3>>, <<>> >>,
      << <<1, 2>>, <<3>> >>,
      << <<1, 2>>, <<3>>, <<250>> >>,
      << <<255>> >>,
      << <<1, 2>>, <<3>>, <<250>>, <<255>> >> }

FragLists == SeqsUpTo(SeqsUpTo(ByteVals, MaxFragLen), MaxFrags)

headerIdle ==
    /\ hdr = NoValue /\ hdrArgs = NoValue /\ hdrFresh = FALSE /\ hdrImage = <<>>
    /\ prevCreator = <<>> /\ argsDiffer = FALSE

gasIdle == gas = NoValue /\ gasArgs = NoValue /\ gasImage = <<>>

codecIdle == headerIdle /\ gasIdle

tableIdle ==
    /\ table = NoValue /\ finalized = FALSE /\ mem = NoValue
    /\ lastCall = NoValue /\ placedAt = {} /\ placed = {}

checksumIdle == buf = <<>> /\ called = FALSE /\ cs = 0 /\ csBuf = <<>>

InitChecksum ==
    /\ buf \in FragLists \cup TestVectors
    /\ called = FALSE
    /\ cs = 0
    /\ csBuf = <<>>
    /\ codecIdle
    /\ tableIdle

\* The caller passes its fragment list to checksum.
CallChecksum ==
    /\ called' = TRUE
    /\ cs' = checksum(buf)
    /\ csBuf' = buf
    /\ UNCHANGED <<buf, codecVars, tableVars>>

ReplaceAt(b, i, mid) == SubSeq(b, 1, i - 1) \o mid \o SubSeq(b, i + 1, Len(b))

\* The caller cuts fragment i in two at k (either part may be empty).
SplitFragment(i, k) ==
    /\ Len(buf) < MaxFrags
    /\ i \in 1..Len(buf)
    /\ k \in 0..Len(buf[i])
    /\ buf' = ReplaceAt(buf, i,
                 <<SubSeq(buf[i], 1, k), SubSeq(buf[i], k + 1, Len(buf[i]))>>)
    /\ UNCHANGED <<called, cs, csBuf, codecVars, tableVars>>

\* The caller joins fragments i and i+1 into one.
JoinFragments(i) ==
    /\ i \in 1..(Len(buf) - 1)
    /\ Len(buf[i]) + Len(buf[i + 1]) <= MaxFragLen
    /\ buf' = SubSeq(buf, 1, i - 1) \o <<buf[i] \o buf[i + 1]>>
                 \o SubSeq(buf, i + 2, Len(buf))
    /\ UNCHANGED <<called, cs, csBuf, codecVars, tableVars>>

\* The caller passes an additional empty fragment at position i.
InsertEmpty(i) ==
    /\ Len(buf) < MaxFrags
    /\ i \in 1..(Len(buf) + 1)
    /\ buf' = SubSeq(buf, 1, i - 1) \o << <<>> >> \o SubSeq(buf, i, Len(buf))
    /\ UNCHANGED <<called, cs, csBuf, codecVars, tableVars>>

NextChecksum ==
    \/ CallChecksum
    \/ \E i \in 1..MaxFrags : \E k \in 0..MaxFragLen : SplitFragment(i, k)
    \/ \E i \in 1..MaxFrags : JoinFragments(i)
    \/ \E i \in 1..(MaxFrags + 1) : InsertEmpty(i)

SpecChecksum == InitChecksum /\ [][NextChecksum]_vars

(***************************************************************************)
(* C1: whenever checksum has returned c for a fragment list F, c is a      *)
(* byte and (sum of all bytes of all fragments of F + c) mod 256 = 0,      *)
(* i.e. c = (256 - (sum mod 256)) mod 256; on the vectors of               *)
(* tests::test_checksum it returns the values asserted there.              *)
(***************************************************************************)
ChecksumSumsToZero ==
    called =>
        /\ cs \in 0..255
        /\ (SumBytes(Flatten(csBuf)) + cs) % 256 = 0
        /\ cs = (256 - (SumBytes(Flatten(csBuf)) % 256)) % 256
        /\ csBuf \in {<<>>, << <<>> >>} => cs = 0
        /\ csBuf \in {<< <<1, 2, 3>> >>, << <<1, 2, 3>>, <<>> >>,
                      << <<1, 2>>, <<3>> >>} => cs = 250
        /\ csBuf = << <<1, 2>>, <<3>>, <<250>> >> => cs = 0
        /\ csBuf \in {<< <<255>> >>,
                      << <<1, 2>>, <<3>>, <<250>>, <<255>> >>} => cs = 1

ChecksumWrapsWitness ==
    /\ called
    /\ cs # 0
    /\ Len(csBuf) >= 2
    /\ SumBytes(Flatten(csBuf)) > 256

(***************************************************************************)
(* C2: checksum depends only on the concatenation of its fragments: the    *)
(* value returned for one partition of a byte sequence is the value        *)
(* checksum gives for every other partition the caller derives by          *)
(* splitting, joining or inserting empty fragments, and for the sequence   *)
(* passed as a single fragment.                                            *)
(***************************************************************************)
ChecksumPartitionInvariant ==
    called =>
        /\ Flatten(buf) = Flatten(csBuf)
        /\ checksum(buf) = cs
        /\ checksum(<<Flatten(buf)>>) = cs
        /\ \A k \in 0..Len(Flatten(buf)) :
              checksum(<<SubSeq(Flatten(buf), 1, k),
                         SubSeq(Flatten(buf), k + 1, Len(Flatten(buf)))>>) = cs

ChecksumRepartitionedWitness ==
    /\ called
    /\ Len(csBuf) = 1
    /\ Len(buf) = 2
    /\ buf[1] # <<>>
    /\ buf[2] # <<>>
    /\ cs # 0

(***************************************************************************)
(* Little-endian integer fields (zerocopy::little_endian::{U32, U64}).     *)
(* U32New takes the native value, U64New its four 16-bit digits, most      *)
(* significant first; both store the bytes least significant first.        *)
(***************************************************************************)
\* Variant: most significant byte first.
U32NewBigEndian(v) ==
    <<(v \div 16777216) % 256, (v \div 65536) % 256, (v \div 256) % 256, v % 256>>

U32New(v) ==
    <<v % 256, (v \div 256) % 256, (v \div 65536) % 256, (v \div 16777216) % 256>>

\* Variant: most significant byte first.
U64NewBigEndian(d) ==
    <<d[1] \div 256, d[1] % 256, d[2] \div 256, d[2] % 256,
      d[3] \div 256, d[3] % 256, d[4] \div 256, d[4] % 256>>

U64New(d) ==
    <<d[4] % 256, d[4] \div 256, d[3] % 256, d[3] \div 256,
      d[2] % 256, d[2] \div 256, d[1] % 256, d[1] \div 256>>

\* The value a little-endian 4-byte field holds.
U32Get(b) == b[1] + 256 * b[2] + 65536 * b[3] + 16777216 * b[4]

(***************************************************************************)
(* GenericAddressStructure                                                 *)
(***************************************************************************)
GenericAddressStructureNew(address_space_id, register_bit_width, register_bit_offset, access_size, address) ==
    [address_space_id |-> address_space_id,
     register_bit_width |-> register_bit_width,
     register_bit_offset |-> register_bit_offset,
     access_size |-> access_size,
     address |-> U64New(address)]

\* as_bytes() of the packed record: the fields in declaration order.
GasAsBytes(g) ==
    <<g.address_space_id, g.register_bit_width, g.register_bit_offset,
      g.access_size>> \o g.address

(***************************************************************************)
(* SdtHeader                                                               *)
(***************************************************************************)
FC_ACPI_CREATOR_ID == <<70, 67, 65, 84>>
FC_ACPI_CREATOR_REVISION == 539230489

\* Variant: creator_id taken from the signature argument.
SdtHeaderNewCreatorFromSignature(signature, length, table_revision, oem_id, oem_table_id, oem_revision) ==
    [signature |-> signature,
     length |-> U32New(length),
     revision |-> table_revision,
     checksum |-> 0,
     oem_id |-> oem_id,
     oem_table_id |-> oem_table_id,
     oem_revision |-> U32New(oem_revision),
     creator_id |-> signature,
     creator_revision |-> U32New(FC_ACPI_CREATOR_REVISION)]

\* Variant: revision and checksum initialisers exchanged.
SdtHeaderNewRevisionInChecksum(signature, length, table_revision, oem_id, oem_table_id, oem_revision) ==
    [signature |-> signature,
     length |-> U32New(length),
     revision |-> 0,
     checksum |-> table_revision,
     oem_id |-> oem_id,
     oem_table_id |-> oem_table_id,
     oem_revision |-> U32New(oem_revision),
     creator_id |-> FC_ACPI_CREATOR_ID,
     creator_revision |-> U32New(FC_ACPI_CREATOR_REVISION)]

SdtHeaderNew(signature, length, table_revision, oem_id, oem_table_id, oem_revision) ==
    [signature |-> signature,
     length |-> U32New(length),
     revision |-> table_revision,
     checksum |-> 0,
     oem_id |-> oem_id,
     oem_table_id |-> oem_table_id,
     oem_revision |-> U32New(oem_revision),
     creator_id |-> FC_ACPI_CREATOR_ID,
     creator_revision |-> U32New(FC_ACPI_CREATOR_REVISION)]

\* as_bytes() of the packed record: the fields in declaration order.
SdtHeaderAsBytes(h) ==
    h.signature \o h.length \o <<h.revision, h.checksum>> \o h.oem_id
        \o h.oem_table_id \o h.oem_revision \o h.creator_id
        \o h.creator_revision

(***************************************************************************)
(* Header specification: a caller builds headers, sets the public          *)
(* checksum field and takes the header's bytes.                            *)
(***************************************************************************)
SignatureVals == {<<88, 83, 68, 84>>, <<70, 65, 67, 80>>}
LengthVals == {36, 305419896, 2147483647}
RevisionVals == {1, 255}
OemIdVals == {<<70, 73, 82, 69, 67, 75>>, <<1, 2, 3, 4, 5, 6>>}
OemTableIdVals == {<<70, 67, 86, 77, 88, 83, 68, 84>>, <<11, 12, 13, 14, 15, 16, 17, 18>>}
OemRevisionVals == {0, 2018915346}
ChecksumVals == {1, 255}

HeaderArgs ==
    [signature : SignatureVals, length : LengthVals,
     table_revision : RevisionVals, oem_id : OemIdVals,
     oem_table_id : OemTableIdVals, oem_revision : OemRevisionVals]

InitHeader ==
    /\ headerIdle
    /\ gasIdle
    /\ checksumIdle
    /\ tableIdle

NewSdtHeader(a) ==
    /\ hdr' = SdtHeaderNew(a.signature, a.length, a.table_revision, a.oem_id,
                           a.oem_table_id, a.oem_revision)
    /\ hdrArgs' = a
    /\ hdrFresh' = TRUE
    /\ hdrImage' = <<>>
    /\ prevCreator' = IF hdr = NoValue THEN <<>>
                       ELSE <<hdr.creator_id, hdr.creator_revision>>
    /\ argsDiffer' = (hdr # NoValue /\ \A f \in DOMAIN a : a[f] # hdrArgs[f])
    /\ UNCHANGED <<gasVars, checksumVars, tableVars>>

\* The owner of the header assigns its public checksum field.
SetHeaderChecksum(c) ==
    /\ hdr # NoValue
    /\ hdr' = [hdr EXCEPT !.checksum = c]
    /\ hdrFresh' = FALSE
    /\ hdrImage' = <<>>
    /\ UNCHANGED <<hdrArgs, prevCreator, argsDiffer, gasVars, checksumVars, tableVars>>

HeaderAsBytes ==
    /\ hdr # NoValue
    /\ hdrImage' = SdtHeaderAsBytes(hdr)
    /\ UNCHANGED <<hdr, hdrArgs, hdrFresh, prevCreator, argsDiffer, gasVars,
                   checksumVars, tableVars>>

NextHeader ==
    \/ \E a \in HeaderArgs : NewSdtHeader(a)
    \/ \E c \in ChecksumVals : SetHeaderChecksum(c)
    \/ HeaderAsBytes

SpecHeader == InitHeader /\ [][NextHeader]_vars

(***************************************************************************)
(* C4: every header built by SdtHeader::new has creator_id "FCAT" and      *)
(* creator_revision 0x20240119 whatever the arguments, so two headers      *)
(* built from different argument tuples have identical creator fields.     *)
(***************************************************************************)
CreatorFieldsFixed ==
    /\ hdr # NoValue =>
          /\ hdr.creator_id = <<70, 67, 65, 84>>
          /\ U32Get(hdr.creator_revision) = 539230489
    /\ prevCreator # <<>> =>
          prevCreator = <<hdr.creator_id, hdr.creator_revision>>

CreatorFieldsWitness ==
    /\ hdr # NoValue
    /\ prevCreator # <<>>
    /\ hdrFresh
    /\ argsDiffer

(***************************************************************************)
(* C5: SdtHeader::new accepts every argument tuple, and the header it      *)
(* returns has checksum 0 and signature, length, revision, oem_id,         *)
(* oem_table_id and oem_revision equal to the arguments.                   *)
(***************************************************************************)
NewHeaderPassesArguments ==
    /\ hdrFresh =>
          /\ hdr.checksum = 0
          /\ hdr.signature = hdrArgs.signature
          /\ U32Get(hdr.length) = hdrArgs.length
          /\ hdr.revision = hdrArgs.table_revision
          /\ hdr.oem_id = hdrArgs.oem_id
          /\ hdr.oem_table_id = hdrArgs.oem_table_id
          /\ U32Get(hdr.oem_revision) = hdrArgs.oem_revision
    /\ \A a \in HeaderArgs : ENABLED NewSdtHeader(a)

NewHeaderWitness ==
    /\ hdrFresh
    /\ hdrArgs.length = 305419896
    /\ hdrArgs.table_revision = 255
    /\ hdrArgs.oem_revision = 2018915346

(***************************************************************************)
(* C6: the bytes of any SdtHeader are exactly 36, with signature at        *)
(* offsets 0-3, length at 4-7, revision at 8, checksum at 9, oem_id at     *)
(* 10-15, oem_table_id at 16-23, oem_revision at 24-27, creator_id at      *)
(* 28-31 and creator_revision at 32-35, the three 32-bit fields least      *)
(* significant byte first.                                                 *)
(***************************************************************************)
HeaderLayout ==
    hdrImage # <<>> =>
        /\ Len(hdrImage) = 36
        /\ \A i \in 1..36 : hdrImage[i] \in 0..255
        /\ SubSeq(hdrImage, 1, 4) = hdrArgs.signature
        /\ hdrImage[5] + 256 * hdrImage[6] + 65536 * hdrImage[7]
              + 16777216 * hdrImage[8] = hdrArgs.length
        /\ hdrImage[9] = hdrArgs.table_revision
        /\ hdrImage[10] = hdr.checksum
        /\ SubSeq(hdrImage, 11, 16) = hdrArgs.oem_id
        /\ SubSeq(hdrImage, 17, 24) = hdrArgs.oem_table_id
        /\ hdrImage[25] + 256 * hdrImage[26] + 65536 * hdrImage[27]
              + 16777216 * hdrImage[28] = hdrArgs.oem_revision
        /\ SubSeq(hdrImage, 29, 32) = <<70, 67, 65, 84>>
        /\ SubSeq(hdrImage, 33, 36) = <<25, 1, 36, 32>>

HeaderLayoutWitness ==
    /\ hdrImage # <<>>
    /\ hdr.checksum = 255
    /\ hdrArgs.length = 305419896
    /\ hdrArgs.oem_revision = 2018915346
    /\ SubSeq(hdrImage, 5, 8) = <<120, 86, 52, 18>>

(***************************************************************************)
(* GAS specification: a caller builds GenericAddressStructure values and   *)
(* takes their bytes.                                                      *)
(***************************************************************************)
AddressSpaceVals == {0, 1, 255}
BitWidthVals == {32, 255}
BitOffsetVals == {0, 7}
AccessSizeVals == {0, 3, 200}
AddressVals ==
    {<<0, 0, 0, 4096>>, <<4386, 13124, 21862, 30600>>,
     <<65535, 65535, 65535, 65535>>, <<32768, 0, 1, 0>>}

GasArgs ==
    [address_space_id : AddressSpaceVals, register_bit_width : BitWidthVals,
     register_bit_offset : BitOffsetVals, access_size : AccessSizeVals,
     address : AddressVals]

InitGas ==
    /\ gasIdle
    /\ headerIdle
    /\ checksumIdle
    /\ tableIdle

NewGenericAddressStructure(a) ==
    /\ gas' = GenericAddressStructureNew(a.address_space_id,
                  a.register_bit_width, a.register_bit_offset, a.access_size,
                  a.address)
    /\ gasArgs' = a
    /\ gasImage' = <<>>
    /\ UNCHANGED <<headerVars, checksumVars, tableVars>>

GasTakeBytes ==
    /\ gas # NoValue
    /\ gasImage' = GasAsBytes(gas)
    /\ UNCHANGED <<gas, gasArgs, headerVars, checksumVars, tableVars>>

NextGas ==
    \/ \E a \in GasArgs : NewGenericAddressStructure(a)
    \/ GasTakeBytes

SpecGas == InitGas /\ [][NextGas]_vars

(***************************************************************************)
(* C7: GenericAddressStructure::new accepts every five-tuple, keeps the    *)
(* four byte-sized inputs unchanged, and the value's bytes are exactly 12: *)
(* address_space_id at offset 0, register_bit_width at 1,                  *)
(* register_bit_offset at 2, access_size at 3 and the 64-bit address at    *)
(* offsets 4-11, least significant byte first.                             *)
(***************************************************************************)
GasLayout ==
    /\ \A a \in GasArgs : ENABLED NewGenericAddressStructure(a)
    /\ gas # NoValue =>
          /\ gas.address_space_id = gasArgs.address_space_id
          /\ gas.register_bit_width = gasArgs.register_bit_width
          /\ gas.register_bit_offset = gasArgs.register_bit_offset
          /\ gas.access_size = gasArgs.access_size
    /\ gasImage # <<>> =>
          /\ Len(gasImage) = 12
          /\ \A i \in 1..12 : gasImage[i] \in 0..255
          /\ gasImage[1] = gasArgs.address_space_id
          /\ gasImage[2] = gasArgs.register_bit_width
          /\ gasImage[3] = gasArgs.register_bit_offset
          /\ gasImage[4] = gasArgs.access_size
          /\ gasImage[5] + 256 * gasImage[6] = gasArgs.address[4]
          /\ gasImage[7] + 256 * gasImage[8] = gasArgs.address[3]
          /\ gasImage[9] + 256 * gasImage[10] = gasArgs.address[2]
          /\ gasImage[11] + 256 * gasImage[12] = gasArgs.address[1]

GasLayoutWitness ==
    /\ gasArgs # NoValue
    /\ gasArgs.address = <<4386, 13124, 21862, 30600>>
    /\ gasArgs.access_size = 200
    /\ gasImage # <<>>
    /\ SubSeq(gasImage, 5, 12) = <<136, 119, 102, 85, 68, 51, 34, 17>>

(***************************************************************************)
(* Guest memory: one region of MemSize bytes at address 0.  write_slice    *)
(* copies the bytes that fit; it fails with InvalidGuestAddress when the   *)
(* address is outside the region and with PartialBuffer when the image     *)
(* runs past its end, in which case the part that fits may have landed.    *)
(***************************************************************************)
SdtHeaderSize == 36
SlotSize == SdtHeaderSize + MaxBody
MemSize == SlotSize + 1
GuestAddrs == {0, 1, MemSize - 1, MemSize}

MemSlice(m, address, n) == [i \in 1..n |-> m[address + i - 1]]

Landed(m, bytes, address, n) ==
    [x \in DOMAIN m |->
        IF x >= address /\ x < address + n THEN bytes[x - address + 1] ELSE m[x]]

OkUnit == [ok |-> TRUE]
Err(e) == [ok |-> FALSE, err |-> e]

WriteSliceOutcomes(m, bytes, address) ==
    IF address >= MemSize
    THEN {[mem |-> m,
           result |-> Err([variant |-> "InvalidGuestAddress", address |-> address])]}
    ELSE IF address + Len(bytes) > MemSize
    THEN {[mem |-> Landed(m, bytes, address, c),
           result |-> Err([variant |-> "PartialBuffer", expected |-> Len(bytes),
                           completed |-> c])] : c \in {0, MemSize - address}}
    ELSE {[mem |-> Landed(m, bytes, address, Len(bytes)), result |-> OkUnit]}

(***************************************************************************)
(* A concrete table: an SdtHeader followed by body bytes, implementing     *)
(* the Sdt contract.                                                       *)
(***************************************************************************)
TableImage(t) == SdtHeaderAsBytes(t.header) \o t.body

\* Sdt::len
TableLen(t) == Len(TableImage(t))

\* Sdt::is_empty
is_empty(t) == TableLen(t) = 0

\* The owning table computes the checksum over its complete image, header
\* with zero checksum followed by body, and stores it in the header.
FinalizedTable(t) ==
    [t EXCEPT !.header.checksum =
        checksum(<<SdtHeaderAsBytes([t.header EXCEPT !.checksum = 0]), t.body>>)]

BodyByteVals == {1, 255}
TableArgs ==
    [signature : SignatureVals, length : {0}, table_revision : {1},
     oem_id : {<<70, 73, 82, 69, 67, 75>>},
     oem_table_id : {<<70, 67, 86, 77, 88, 83, 68, 84>>},
     oem_revision : OemRevisionVals]

Init ==
    /\ \E a \in TableArgs : \E body \in SeqsUpTo(BodyByteVals, MaxBody) :
          table = [header |-> SdtHeaderNew(a.signature,
                                  SdtHeaderSize + Len(body), a.table_revision,
                                  a.oem_id, a.oem_table_id, a.oem_revision),
                   body |-> body]
    /\ finalized = FALSE
    /\ mem = [x \in 0..(MemSize - 1) |-> 0]
    /\ lastCall = NoValue
    /\ placedAt = {}
    /\ placed = {}
    /\ checksumIdle
    /\ headerIdle
    /\ gasIdle

Finalize ==
    /\ table' = FinalizedTable(table)
    /\ finalized' = TRUE
    /\ placedAt' = IF table' = table THEN placedAt ELSE {}
    /\ placed' = IF table' = table THEN placed ELSE {}
    /\ UNCHANGED <<mem, lastCall, checksumVars, codecVars>>

\* The builder changes a body byte after construction.
SetBodyByte(i, v) ==
    /\ i \in 1..Len(table.body)
    /\ table.body[i] # v
    /\ table' = [table EXCEPT !.body[i] = v]
    /\ finalized' = FALSE
    /\ placedAt' = {}
    /\ placed' = {}
    /\ UNCHANGED <<mem, lastCall, checksumVars, codecVars>>

\* Variant: write_to_guest that computes the checksum itself before writing.
WriteToGuestFinalizing(address) ==
    \E w \in WriteSliceOutcomes(mem, TableImage(FinalizedTable(table)), address) :
        /\ table' = FinalizedTable(table)
        /\ finalized' = TRUE
        /\ mem' = w.mem
        /\ lastCall' =
              [memWrites |-> 1,
               memResult |-> w.result,
               result |-> IF w.result.ok THEN OkUnit
                          ELSE Err([variant |-> "GuestMemory",
                                    cause |-> w.result.err])]
        /\ placedAt' = IF w.result.ok THEN placedAt \cup {address} ELSE placedAt
        /\ placed' = IF w.result.ok
                      THEN placed \cup {MemSlice(w.mem, address, TableLen(table))}
                      ELSE placed
        /\ UNCHANGED <<checksumVars, codecVars>>

\* Variant: write_to_guest that reports every failed write as an invalid address.
WriteToGuestInvalidAddress(address) ==
    \E w \in WriteSliceOutcomes(mem, TableImage(table), address) :
        /\ mem' = w.mem
        /\ lastCall' =
              [memWrites |-> 1,
               memResult |-> w.result,
               result |-> IF w.result.ok THEN OkUnit
                          ELSE Err([variant |-> "InvalidGuestAddress"])]
        /\ placedAt' = IF w.result.ok THEN placedAt \cup {address} ELSE placedAt
        /\ placed' = IF w.result.ok
                      THEN placed \cup {MemSlice(w.mem, address, TableLen(table))}
                      ELSE placed
        /\ UNCHANGED <<table, finalized, checksumVars, codecVars>>

\* Variant: write_to_guest that refuses a table whose checksum is not finalized.
WriteToGuestFinalizedOnly(address) ==
    /\ finalized
    /\ \E w \in WriteSliceOutcomes(mem, TableImage(table), address) :
        /\ mem' = w.mem
        /\ lastCall' =
              [memWrites |-> 1,
               memResult |-> w.result,
               result |-> IF w.result.ok THEN OkUnit
                          ELSE Err([variant |-> "GuestMemory",
                                    cause |-> w.result.err])]
        /\ placedAt' = IF w.result.ok THEN placedAt \cup {address} ELSE placedAt
        /\ placed' = IF w.result.ok
                      THEN placed \cup {MemSlice(w.mem, address, TableLen(table))}
                      ELSE placed
        /\ UNCHANGED <<table, finalized, checksumVars, codecVars>>

\* Sdt::write_to_guest: one write_slice of the table's current image.
WriteToGuest(address) ==
    \E w \in WriteSliceOutcomes(mem, TableImage(table), address) :
        /\ mem' = w.mem
        /\ lastCall' =
              [memWrites |-> 1,
               memResult |-> w.result,
               result |-> IF w.result.ok THEN OkUnit
                          ELSE Err([variant |-> "GuestMemory",
                                    cause |-> w.result.err])]
        /\ placedAt' = IF w.result.ok THEN placedAt \cup {address} ELSE placedAt
        /\ placed' = IF w.result.ok
                      THEN placed \cup {MemSlice(w.mem, address, TableLen(table))}
                      ELSE placed
        /\ UNCHANGED <<table, finalized, checksumVars, codecVars>>

Next ==
    \/ Finalize
    \/ \E i \in 1..MaxBody : \E v \in BodyByteVals : SetBodyByte(i, v)
    \/ \E address \in GuestAddrs : WriteToGuest(address)

Spec == Init /\ [][Next]_vars

(***************************************************************************)
(* C3: once the checksum computed over the complete image (header with     *)
(* zero checksum, then body) is stored in the header's checksum byte       *)
(* (offset 9), the bytes of the full image sum to 0 modulo 256.            *)
(***************************************************************************)
FinalizedImageSumsToZero ==
    finalized =>
        /\ SumBytes(TableImage(table)) % 256 = 0
        /\ TableImage(table)[10] = table.header.checksum

FinalizedWitness ==
    /\ finalized
    /\ table.header.checksum \notin {0, 255}
    /\ Len(table.body) >= 1
    /\ SumBytes(TableImage(table)) > 256

WriteAcceptedInAnyState ==
    \A address \in GuestAddrs : ENABLED WriteToGuest(address)

UnfinalizedImageWrittenWitness ==
    /\ ~finalized
    /\ table.header.checksum # 0
    /\ lastCall # NoValue
    /\ lastCall.result.ok
    /\ placedAt # {}
    /\ \E address \in placedAt :
          SumBytes(MemSlice(mem, address, TableLen(table))) % 256 # 0

====
